---------------------------- MODULE Spec2Model ----------------------------
(***************************************************************************)
(* Model of the theoros Hyperlane core of pragma-monorepo:                 *)
(*   - the Dispatch event decoder   (types/hyperlane/events/dispatch_event.rs)  *)
(*   - the GCS checkpoint fetcher   (types/hyperlane/checkpoint_fetchers/gcs.rs) *)
(*   - the validator registry build (rpc/evm/mod.rs)                       *)
(*                                                                         *)
(* Representation of integers.  TLC integers are 32 bits wide, the program *)
(* handles u32, u64, u128 and 256-bit values.  A u8 or u16 is a number.   *)
(* A wider integer is held as the string of its 16-bit limbs, most         *)
(* significant first, of exactly the width of its type (2, 4 or 8 limbs);  *)
(* a U256 is the record of its two u128 words; a Felt is the 32 bytes      *)
(* Felt::to_bytes_be returns (no arithmetic is done on a Felt).            *)
(*                                                                         *)
(* A function returning Result<T> yields [tag |-> "Ok", ...] or            *)
(* [tag |-> "Err", ...]; a Rust panic (Vec::drain past the end) yields     *)
(* [tag |-> "Panic"].                                                      *)
(***************************************************************************)
EXTENDS Integers, Sequences, FiniteSets, TLC

VARIABLES
    \* ---- DispatchEvent::from_starknet_event_data, one call ----
    input,          \* the Vec<Felt> handed to the decoder
    pc,             \* position of the call
    fields,         \* sender, destination_domain, recipient_address, header read so far
    data,           \* the body's Vec<u8> cursor buffer (drained from the front)
    nb_updated,     \* the declared number of updates
    iter,           \* iterations of `for _ in 0..nb_updated` started so far
    updates,        \* the Vec<DispatchUpdate> built by the loop
    result,         \* what the call returned
    \* ---- SpotMedianUpdate::to_bytes / from_starknet_event_data ----
    rt,
    \* ---- GcsStorageClient::fetch ----
    store,
    \* ---- HyperlaneValidatorsMapping::from_config ----
    reg

decoderVars == <<input, pc, fields, data, nb_updated, iter, updates, result>>
vars == <<input, pc, fields, data, nb_updated, iter, updates, result, rt, store, reg>>

-----------------------------------------------------------------------------
(* Program constants *)

MESSAGE_HEADER_FELT_SIZE == 10

\* The width of the variant payload alone, without the 32 bytes of discriminants
\* and pair id that precede it
SPOT_MEDIAN_PAYLOAD_SIZE == 8 + 2 + 1 + 4 * 16
SPOT_MEDIAN_UPDATE_SIZE == 107

\* Width in bytes of Felt::to_bytes_be, and of the half kept by split_at(16).1
FELT_BYTES == 32
FELT_SPLIT == 16

-----------------------------------------------------------------------------
(* Bytes *)

Min(a, b) == IF a < b THEN a ELSE b

Zeros(n) == [i \in 1..n |-> 0]

\* v as w big-endian base-256 digits (uN::to_be_bytes, for the v the model builds)
RECURSIVE ToBeBytes(_, _)
ToBeBytes(v, w) == IF w = 0 THEN <<>> ELSE Append(ToBeBytes(v \div 256, w - 1), v % 256)

\* u8::from_be_bytes / u16::from_be_bytes: the number a 1- or 2-byte string denotes
RECURSIVE NarrowFromBe(_)
NarrowFromBe(bs) ==
    IF Len(bs) = 0 THEN 0
    ELSE NarrowFromBe(SubSeq(bs, 1, Len(bs) - 1)) * 256 + bs[Len(bs)]

\* u32/u64/u128::from_be_bytes: the limbs of the value a 4-, 8- or 16-byte string denotes
WideFromBe(bs) == [i \in 1..(Len(bs) \div 2) |-> bs[2 * i - 1] * 256 + bs[2 * i]]

\* u32/u64/u128::to_be_bytes
RECURSIVE WideToBe(_)
WideToBe(v) == IF Len(v) = 0 THEN <<>> ELSE ToBeBytes(v[1], 2) \o WideToBe(Tail(v))

\* U256::from(0_u8)
U256_zero == [low |-> Zeros(8), high |-> Zeros(8)]

\* Vec::drain(..n) followed by collect: panics when n exceeds the length.
Drain(buf, n) ==
    [ok   |-> n <= Len(buf),
     out  |-> SubSeq(buf, 1, Min(n, Len(buf))),
     rest |-> SubSeq(buf, Min(n, Len(buf)) + 1, Len(buf))]

\* starknet U256::from_words(low, high)
U256_from_words(low, high) == [low |-> low, high |-> high]

\* FromFieldBytes for u8 / u32 / u128: the low-order w bytes of the 32-byte
\* big-endian buffer of a field element (pragma_utils::conversions::apibara).
FieldLow(bytes, w) == SubSeq(bytes, FELT_BYTES - w + 1, FELT_BYTES)
u8_from_field_bytes(bytes) == NarrowFromBe(FieldLow(bytes, 1))
u32_from_field_bytes(bytes) == WideFromBe(FieldLow(bytes, 4))
u128_from_field_bytes(bytes) == WideFromBe(FieldLow(bytes, 16))

Ok(v) == [tag |-> "Ok", val |-> v]
Err(kind, what) == [tag |-> "Err", kind |-> kind, what |-> what]
Panic == [tag |-> "Panic"]
MissingField(name) == Err("MissingField", name)

-----------------------------------------------------------------------------
(* pragma_feeds::FeedType and its TryFrom<u16> *)

\* The discriminant of FeedType::UniqueSpotMedian, the only variant the decoder
\* matches on (dispatch_event.rs:210-216).
FEED_TYPE_UNIQUE_SPOT_MEDIAN == 0

KnownFeedTypes == {FEED_TYPE_UNIQUE_SPOT_MEDIAN}

FeedType_try_from(raw_feed_type) ==
    IF raw_feed_type \in KnownFeedTypes
    THEN Ok("UniqueSpotMedian")
    ELSE Err("UnknownFeedType", raw_feed_type)

-----------------------------------------------------------------------------
(* build_feed_id *)

HexDigits == <<"0", "1", "2", "3", "4", "5", "6", "7",
               "8", "9", "a", "b", "c", "d", "e", "f">>

\* hex::encode: two lower-case digits per byte, high nibble first
RECURSIVE HexEncode(_)
HexEncode(bs) ==
    IF Len(bs) = 0 THEN <<>>
    ELSE <<HexDigits[(bs[1] \div 16) + 1], HexDigits[(bs[1] % 16) + 1]>>
         \o HexEncode(Tail(bs))

build_feed_id(raw_asset_class, raw_feed_type, pair_id_high, pair_id_low) ==
    LET bytes == ToBeBytes(raw_asset_class, 2) \o ToBeBytes(raw_feed_type, 2)
                 \o WideToBe(pair_id_high) \o WideToBe(pair_id_low)
    IN  <<"0x">> \o HexEncode(bytes)

-----------------------------------------------------------------------------
(* SpotMedianUpdate *)

\* SpotMedianUpdate::from_starknet_event_data(data: Vec<u8>)
\* `read` (not a field of the struct) counts the bytes drained.
SpotMedianUpdate_from_starknet_event_data(bytes) ==
    LET d1 == Drain(bytes, 8)
        d2 == Drain(d1.rest, 2)
        d3 == Drain(d2.rest, 1)
        d4 == Drain(d3.rest, 16)
        d5 == Drain(d4.rest, 16)
        d6 == Drain(d5.rest, 16)
        d7 == Drain(d6.rest, 16)
        timestamp == WideFromBe(d1.out)
        num_sources_aggregated == NarrowFromBe(d2.out)
        decimals == NarrowFromBe(d3.out)
        price_high == WideFromBe(d4.out)
        price_low == WideFromBe(d5.out)
        volume_high == WideFromBe(d6.out)
        volume_low == WideFromBe(d7.out)
    IN  IF ~(d1.ok /\ d2.ok /\ d3.ok /\ d4.ok /\ d5.ok /\ d6.ok /\ d7.ok)
        THEN Panic
        ELSE [tag  |-> "Ok",
              read |-> Len(bytes) - Len(d7.rest),
              val  |-> [pair_id  |-> U256_zero,
                        metadata |-> [decimals |-> decimals,
                                      timestamp |-> timestamp,
                                      num_sources_aggregated |-> num_sources_aggregated],
                        price    |-> U256_from_words(price_low, price_high),
                        volume   |-> U256_from_words(volume_low, volume_high)]]

\* A to_bytes that writes the price words low first, as it does the pair id's
SpotMedianUpdate_to_bytes_price_low_first(self) ==
    WideToBe(self.pair_id.low) \o WideToBe(self.pair_id.high)
    \o WideToBe(self.metadata.timestamp)
    \o ToBeBytes(self.metadata.num_sources_aggregated, 2)
    \o ToBeBytes(self.metadata.decimals, 1)
    \o WideToBe(self.price.low) \o WideToBe(self.price.high)
    \o WideToBe(self.volume.high) \o WideToBe(self.volume.low)

\* SpotMedianUpdate::to_bytes
SpotMedianUpdate_to_bytes(self) ==
    WideToBe(self.pair_id.low) \o WideToBe(self.pair_id.high)
    \o WideToBe(self.metadata.timestamp)
    \o ToBeBytes(self.metadata.num_sources_aggregated, 2)
    \o ToBeBytes(self.metadata.decimals, 1)
    \o WideToBe(self.price.high) \o WideToBe(self.price.low)
    \o WideToBe(self.volume.high) \o WideToBe(self.volume.low)

-----------------------------------------------------------------------------
(* DispatchUpdate *)

\* An update decoder that takes an unrecognised feed type for UniqueSpotMedian
DispatchUpdate_defaulting_feed_type(bytes) ==
    LET d1 == Drain(bytes, 2)
        d2 == Drain(d1.rest, 2)
        d3 == Drain(d2.rest, 16)
        d4 == Drain(d3.rest, 12)
        raw_asset_class == NarrowFromBe(d1.out)
        raw_feed_type == NarrowFromBe(d2.out)
        pair_id_high == WideFromBe(d3.out)
        pair_id_low == WideFromBe(Zeros(4) \o d4.out)
        pair_id == U256_from_words(pair_id_low, pair_id_high)
        feed_id == build_feed_id(raw_asset_class, raw_feed_type, pair_id_high, pair_id_low)
        res == SpotMedianUpdate_from_starknet_event_data(d4.rest)
    IN  IF ~(d1.ok /\ d2.ok /\ d3.ok /\ d4.ok) THEN Panic
        ELSE IF res.tag # "Ok" THEN res
        ELSE [tag  |-> "Ok",
              read |-> (Len(bytes) - Len(d4.rest)) + res.read,
              val  |-> [variant |-> "SpotMedian",
                        update  |-> [res.val EXCEPT !.pair_id = pair_id],
                        feed_id |-> feed_id]]

\* DispatchUpdate::from_starknet_event_data(data: Vec<u8>)
DispatchUpdate_from_starknet_event_data(bytes) ==
    LET d1 == Drain(bytes, 2)
        d2 == Drain(d1.rest, 2)
        d3 == Drain(d2.rest, 16)
        d4 == Drain(d3.rest, 12)
        raw_asset_class == NarrowFromBe(d1.out)
        raw_feed_type == NarrowFromBe(d2.out)
        feed_type == FeedType_try_from(raw_feed_type)
        pair_id_high == WideFromBe(d3.out)
        pair_id_low == WideFromBe(Zeros(4) \o d4.out)
        pair_id == U256_from_words(pair_id_low, pair_id_high)
        feed_id == build_feed_id(raw_asset_class, raw_feed_type, pair_id_high, pair_id_low)
        res == SpotMedianUpdate_from_starknet_event_data(d4.rest)
    IN  IF ~(d1.ok /\ d2.ok) THEN Panic
        ELSE IF feed_type.tag = "Err" THEN feed_type
        ELSE IF ~(d3.ok /\ d4.ok) THEN Panic
        ELSE IF res.tag # "Ok" THEN res
        ELSE [tag  |-> "Ok",
              read |-> (Len(bytes) - Len(d4.rest)) + res.read,
              val  |-> [variant |-> "SpotMedian",
                        update  |-> [res.val EXCEPT !.pair_id = pair_id],
                        feed_id |-> feed_id]]

-----------------------------------------------------------------------------
(* DispatchMessageHeader *)

\* DispatchMessageHeader::from_starknet_event_data(data: Vec<Felt>):
\* eight data.next() calls, each failing with its own context message.
DispatchMessageHeader_from_starknet_event_data(d) ==
    IF      Len(d) < 1 THEN MissingField("version")
    ELSE IF Len(d) < 2 THEN MissingField("nonce")
    ELSE IF Len(d) < 3 THEN MissingField("origin")
    ELSE IF Len(d) < 4 THEN MissingField("sender part 1")
    ELSE IF Len(d) < 5 THEN MissingField("sender part 2")
    ELSE IF Len(d) < 6 THEN MissingField("destination")
    ELSE IF Len(d) < 7 THEN MissingField("recipient part 1")
    ELSE IF Len(d) < 8 THEN MissingField("recipient part 2")
    ELSE Ok([version     |-> u8_from_field_bytes(d[1]),
             nonce       |-> u32_from_field_bytes(d[2]),
             origin      |-> u32_from_field_bytes(d[3]),
             sender      |-> U256_from_words(u128_from_field_bytes(d[4]),
                                             u128_from_field_bytes(d[5])),
             destination |-> u32_from_field_bytes(d[6]),
             recipient   |-> U256_from_words(u128_from_field_bytes(d[7]),
                                             u128_from_field_bytes(d[8]))])

\* The flat_map of DispatchMessageBody::from_starknet_event_data: the bytes after
\* split_at(16) of every element, concatenated in order.
RECURSIVE FlattenBody(_)
FlattenBody(d) ==
    IF Len(d) = 0 THEN <<>>
    ELSE SubSeq(d[1], FELT_SPLIT + 1, FELT_BYTES) \o FlattenBody(Tail(d))

\* Iterator::skip(n) then collect
Skip(d, n) == SubSeq(d, Min(n, Len(d)) + 1, Len(d))

-----------------------------------------------------------------------------
(* Inputs of the decoder: event data as the source chain lays it out *)

\* Bounds of the inputs
MaxDeclared == 2      \* nb_updated ranges over 0..MaxDeclared
MaxUpdates == 2       \* updates encoded in a body: 0..MaxUpdates
MaxDropped == 2       \* trailing body elements cut off: 0..MaxDropped

\* The value n as an integer of w bytes
Wide(n, w) == WideFromBe(ToBeBytes(n, w))

\* A field element holding the number n in its low 4 bytes
FeltNum(n) == Zeros(FELT_BYTES - 4) \o ToBeBytes(n, 4)

\* sender(2) destination(1) recipient(2), then the 10 header elements; HeadA is
\* the header version=1 nonce=4 origin=5 sender=S destination=7 recipient=0.
HeadA == <<FeltNum(161), FeltNum(162), FeltNum(3), FeltNum(177), FeltNum(178),
           FeltNum(1), FeltNum(4), FeltNum(5), FeltNum(161), FeltNum(162),
           FeltNum(7), FeltNum(0), FeltNum(0), FeltNum(216), FeltNum(14)>>
HeadB == [j \in 1..15 |-> IF j = 6 THEN FeltNum(9) ELSE FeltNum(70000 * j + j)]
Heads == {HeadA, HeadB}

\* One update on the wire (post body-flatten), dispatch_event.rs:40-50 and 195-206
WireUpdate(asset_class, feed_type, k) ==
    ToBeBytes(asset_class, 2) \o ToBeBytes(feed_type, 2)
    \o ToBeBytes(1000 + k, 16)                 \* pair_id_high
    \o ToBeBytes(2000 + k, 12)                 \* pair_id_low, 12 bytes
    \o ToBeBytes(1728662756 + k, 8)            \* timestamp
    \o ToBeBytes(3 + k, 2)                     \* num_sources_aggregated
    \o ToBeBytes(8 + k, 1)                     \* decimals
    \o ToBeBytes(5000 + k, 16) \o ToBeBytes(6000 + k, 16)    \* price high, low
    \o ToBeBytes(7000 + k, 16) \o ToBeBytes(8000 + k, 16)    \* volume high, low

\* Two updates of the known feed type and one of a feed type no variant has
WireSamples == <<WireUpdate(0, FEED_TYPE_UNIQUE_SPOT_MEDIAN, 1),
                 WireUpdate(1, FEED_TYPE_UNIQUE_SPOT_MEDIAN, 2),
                 WireUpdate(0, 21325, 3)>>

RECURSIVE ConcatAll(_)
ConcatAll(ss) == IF Len(ss) = 0 THEN <<>> ELSE ss[1] \o ConcatAll(Tail(ss))

\* A byte stream cut into field elements: 16 bytes in the low half of each,
\* the last one zero-padded, `fill` in every byte of the upper half.
ToFelts(bytes, fill) ==
    LET n == (Len(bytes) + FELT_SPLIT - 1) \div FELT_SPLIT
        padded == bytes \o Zeros(n * FELT_SPLIT - Len(bytes))
    IN  [j \in 1..n |->
            [i \in 1..FELT_SPLIT |-> fill]
            \o SubSeq(padded, (j - 1) * FELT_SPLIT + 1, j * FELT_SPLIT)]

BodyFelts(declared, picks, fill, dropped) ==
    LET bytes == <<declared>> \o ConcatAll([i \in 1..Len(picks) |-> WireSamples[picks[i]]])
        felts == ToFelts(bytes, fill)
    IN  SubSeq(felts, 1, Len(felts) - Min(dropped, Len(felts)))

UpdatePicks == UNION {[1..m -> 1..Len(WireSamples)] : m \in 0..MaxUpdates}

Inputs ==
    {SubSeq(h, 1, n) : h \in Heads, n \in 0..Len(HeadA)}
    \cup {h \o BodyFelts(declared, picks, fill, dropped) :
            h \in Heads, declared \in 0..MaxDeclared, picks \in UpdatePicks,
            fill \in {0, 1}, dropped \in 0..MaxDropped}

-----------------------------------------------------------------------------
(* DispatchEvent::from_starknet_event_data, step by step *)

NoResult == [tag |-> "None"]

InitDecoder ==
    /\ input \in Inputs
    /\ pc = "start"
    /\ fields = [read |-> 0]
    /\ data = <<>>
    /\ nb_updated = 0
    /\ iter = 0
    /\ updates = <<>>
    /\ result = NoResult

Return(r) == /\ result' = r
             /\ pc' = "done"

\* lines 53-65: five data.next() calls; `read` is the iterator's position
ReadEnvelope ==
    /\ pc = "start"
    /\ IF Len(input) < 5
       THEN /\ Return(MissingField(CASE Len(input) = 0 -> "sender part 1"
                                     [] Len(input) = 1 -> "sender part 2"
                                     [] Len(input) = 2 -> "destination"
                                     [] Len(input) = 3 -> "recipient part 1"
                                     [] OTHER -> "recipient part 2"))
            /\ UNCHANGED fields
       ELSE /\ fields' = [read |-> 5,
                          sender |-> U256_from_words(u128_from_field_bytes(input[1]),
                                                     u128_from_field_bytes(input[2])),
                          destination_domain |-> u32_from_field_bytes(input[3]),
                          recipient_address |-> U256_from_words(u128_from_field_bytes(input[4]),
                                                                u128_from_field_bytes(input[5]))]
            /\ pc' = "header"
            /\ UNCHANGED result
    /\ UNCHANGED <<input, data, nb_updated, iter, updates, rt, store, reg>>

\* line 67: the header is decoded from a clone of the iterator (all that is left)
DecodeHeader ==
    /\ pc = "header"
    /\ LET header == DispatchMessageHeader_from_starknet_event_data(Skip(input, fields.read))
       IN  IF header.tag = "Err"
           THEN /\ Return(header)
                /\ UNCHANGED fields
           ELSE /\ fields' = [read |-> fields.read,
                              sender |-> fields.sender,
                              destination_domain |-> fields.destination_domain,
                              recipient_address |-> fields.recipient_address,
                              header |-> header.val]
                /\ pc' = "body"
                /\ UNCHANGED result
    /\ UNCHANGED <<input, data, nb_updated, iter, updates, rt, store, reg>>

\* A body taken right after the eight elements the header decoder reads
TakeBody_after_fields_read ==
    /\ pc = "body"
    /\ data' = FlattenBody(Skip(Skip(input, fields.read), 8))
    /\ pc' = "count"
    /\ UNCHANGED <<input, fields, nb_updated, iter, updates, result, rt, store, reg>>

\* lines 68 and 127-134: skip the header's elements, flatten the rest
TakeBody ==
    /\ pc = "body"
    /\ data' = FlattenBody(Skip(Skip(input, fields.read), MESSAGE_HEADER_FELT_SIZE))
    /\ pc' = "count"
    /\ UNCHANGED <<input, fields, nb_updated, iter, updates, result, rt, store, reg>>

\* lines 136-137
ReadCount ==
    /\ pc = "count"
    /\ LET d == Drain(data, 1)
       IN  IF ~d.ok
           THEN /\ Return(Panic)
                /\ UNCHANGED <<data, nb_updated>>
           ELSE /\ nb_updated' = NarrowFromBe(d.out)
                /\ data' = d.rest
                /\ pc' = "loop"
                /\ UNCHANGED result
    /\ UNCHANGED <<input, fields, iter, updates, rt, store, reg>>

\* lines 139-147: one iteration of the loop
ParseUpdate ==
    /\ pc = "loop"
    /\ iter < nb_updated
    /\ iter' = iter + 1
    /\ LET update == DispatchUpdate_from_starknet_event_data(data)
           d == Drain(data, SPOT_MEDIAN_UPDATE_SIZE)
       IN  IF update.tag # "Ok"
           THEN /\ Return(update)
                /\ UNCHANGED <<data, updates>>
           ELSE IF ~d.ok
           THEN /\ Return(Panic)
                /\ UNCHANGED <<data, updates>>
           ELSE /\ data' = d.rest
                /\ updates' = Append(updates, update.val)
                /\ UNCHANGED <<pc, result>>
    /\ UNCHANGED <<input, fields, nb_updated, rt, store, reg>>

\* lines 149-159 and 71-74
FinishBody ==
    /\ pc = "loop"
    /\ iter = nb_updated
    /\ IF Len(updates) # nb_updated
       THEN Return(Err("UpdateCountMismatch",
                       [declared |-> nb_updated, parsed |-> Len(updates)]))
       ELSE Return(Ok([sender |-> fields.sender,
                       destination_domain |-> fields.destination_domain,
                       recipient_address |-> fields.recipient_address,
                       message |-> [header |-> fields.header,
                                    body |-> [nb_updated |-> nb_updated,
                                              updates |-> updates]]]))
    /\ UNCHANGED <<input, fields, data, nb_updated, iter, updates, rt, store, reg>>

NextDecoder ==
    \/ ReadEnvelope
    \/ DecodeHeader
    \/ TakeBody
    \/ ReadCount
    \/ ParseUpdate
    \/ FinishBody

IdleDecoder ==
    /\ input = <<>>
    /\ pc = "idle"
    /\ fields = [read |-> 0]
    /\ data = <<>>
    /\ nb_updated = 0
    /\ iter = 0
    /\ updates = <<>>
    /\ result = NoResult

-----------------------------------------------------------------------------
(* SpotMedianUpdate::to_bytes followed by the variant-payload decoder *)

MaxSample == 1        \* every field of an update ranges over MaxSample + 1 values

\* Width in bytes of U256::low / U256::high written by to_bytes (u128)
U128_BYTES == 16

SampleWide(i, salt, w) == Wide((300 + salt) * i + i, w)

SpotMedianUpdates ==
    {[pair_id  |-> U256_from_words(SampleWide(p, 1, 16), SampleWide(p, 2, 16)),
      metadata |-> [timestamp |-> SampleWide(t, 3, 8),
                    num_sources_aggregated |-> 257 * n,
                    decimals |-> 8 * d],
      price    |-> U256_from_words(SampleWide(pl, 4, 16), SampleWide(ph, 5, 16)),
      volume   |-> U256_from_words(SampleWide(v, 6, 16), SampleWide(v, 7, 16))] :
        p \in 0..MaxSample, t \in 0..MaxSample, n \in 0..MaxSample, d \in 0..MaxSample,
        pl \in 0..MaxSample, ph \in 0..MaxSample, v \in 0..MaxSample}

InitRoundTrip ==
    rt \in {[pc |-> "start", u |-> u, bytes |-> <<>>, from |-> 0, decoded |-> NoResult] :
                u \in SpotMedianUpdates}

IdleRoundTrip ==
    rt = [pc |-> "idle"]

Serialize ==
    /\ rt.pc = "start"
    /\ rt' = [rt EXCEPT !.pc = "serialized", !.bytes = SpotMedianUpdate_to_bytes(rt.u)]
    /\ UNCHANGED <<decoderVars, store, reg>>

\* The decoder applied to everything to_bytes wrote
DecodeSerialized ==
    /\ rt.pc = "serialized"
    /\ rt' = [rt EXCEPT !.pc = "decoded", !.from = 0,
                        !.decoded = SpotMedianUpdate_from_starknet_event_data(rt.bytes)]
    /\ UNCHANGED <<decoderVars, store, reg>>

\* The decoder applied to what to_bytes wrote after pair_id.low and pair_id.high
DecodeAfterPairId ==
    /\ rt.pc = "serialized"
    /\ rt' = [rt EXCEPT !.pc = "decoded", !.from = 2 * U128_BYTES,
                        !.decoded = SpotMedianUpdate_from_starknet_event_data(
                                        Skip(rt.bytes, 2 * U128_BYTES))]
    /\ UNCHANGED <<decoderVars, store, reg>>

NextRoundTrip ==
    \/ Serialize
    \/ DecodeSerialized
    \/ DecodeAfterPairId

-----------------------------------------------------------------------------
(* GcsStorageClient::fetch *)

MaxIndex == 2         \* checkpoint indices 0..MaxIndex

Indices == 0..MaxIndex

\* What the bucket holds under checkpoint_{index}_with_id.json
ObjectStates == {"absent", "checkpoint", "corrupt"}

\* StorageClient::get_object: the object's bytes, or an ObjectError: the
\* failure response (404) for a key the bucket does not hold, or a transport error.
get_object(object, transport_ok) ==
    IF ~transport_ok THEN Err("ObjectError", "Transport")
    ELSE IF object = "absent" THEN Err("ObjectError", "NotFound")
    ELSE Ok(object)

\* serde_json::from_slice::<SignedCheckpointWithMessageId>
serde_json_from_slice(bytes) ==
    IF bytes = "checkpoint" THEN Ok("SignedCheckpointWithMessageId")
    ELSE Err("Deserialize", "serde_json")

Some(v) == [some |-> TRUE, val |-> v]
None == [some |-> FALSE]

\* A fetch that takes an object it cannot deserialize for one not yet published
fetch_swallowing_deserialize(res) ==
    IF res.tag = "Err" THEN res
    ELSE LET parsed == serde_json_from_slice(res.val)
         IN  IF parsed.tag = "Err" THEN Ok(None) ELSE Ok(Some(parsed.val))

\* GcsStorageClient::fetch, given what get_object returned: both `?` propagate
GcsStorageClient_fetch(res) ==
    IF res.tag = "Err" THEN res
    ELSE LET parsed == serde_json_from_slice(res.val)
         IN  IF parsed.tag = "Err" THEN parsed ELSE Ok(Some(parsed.val))

InitStore ==
    store \in {[objects |-> o, fetched |-> FALSE, index |-> 0, got |-> NoResult,
                result |-> NoResult] : o \in [Indices -> ObjectStates]}

IdleStore ==
    store = [fetched |-> FALSE]

Fetch ==
    /\ \E index \in Indices, transport_ok \in BOOLEAN :
         LET res == get_object(store.objects[index], transport_ok)
         IN  store' = [store EXCEPT !.fetched = TRUE, !.index = index, !.got = res,
                                    !.result = GcsStorageClient_fetch(res)]
    /\ UNCHANGED <<decoderVars, rt, reg>>

NextStore == Fetch

-----------------------------------------------------------------------------
(* HyperlaneValidatorsMapping::from_config *)

MaxChains == 3        \* chain names 1..MaxChains

ChainNames == 1..MaxChains

\* A chain of the configuration, and what its endpoint will answer:
\*   url_ok   chain_config.rpc_url parses as a Url
\*   addr_ok  chain_config.hyperlane_address is a hex address
\*   rpc_ok   get_validators_with_index succeeds on that endpoint
ChainConfigs == [url_ok : BOOLEAN, addr_ok : BOOLEAN, rpc_ok : BOOLEAN]

EvmConfigs == UNION {[names -> ChainConfigs] : names \in SUBSET ChainNames}

\* The HashMap<Felt, u8> a chain's contract answers: validator -> index
ValidatorsOf(chain_name) ==
    [v \in {10 * chain_name + 1, 10 * chain_name + 2} |-> (v % 10) - 1]

\* An error of from_config; `chain` is the chain name its message holds, if any
NoChain == 0
RegistryError(kind, chain) == [tag |-> "Err", kind |-> kind, chain |-> chain]

EmptyMap == [c \in {} |-> 0]
Insert(map, k, v) == [c \in DOMAIN map \cup {k} |-> IF c = k THEN v ELSE map[c]]

InitRegistry ==
    reg \in {[config |-> cfg, pc |-> "loop", todo |-> DOMAIN cfg, cur |-> NoChain,
              contracts |-> EmptyMap, clients |-> <<>>, queries |-> <<>>,
              result |-> NoResult] : cfg \in EvmConfigs}

IdleRegistry ==
    reg = [pc |-> "idle"]

\* A loop head that opens the client once the url parses and validates the
\* address only then
BeginChain_client_before_address ==
    /\ reg.pc = "loop"
    /\ \E chain_name \in reg.todo :
         LET chain_config == reg.config[chain_name]
             next == [reg EXCEPT !.todo = reg.todo \ {chain_name}, !.cur = chain_name]
             opened == [next EXCEPT !.clients = Append(reg.clients, chain_name)]
         IN  IF ~chain_config.url_ok
             THEN reg' = [next EXCEPT !.pc = "done",
                                      !.result = RegistryError("InvalidRpcUrl", NoChain)]
             ELSE IF ~chain_config.addr_ok
             THEN reg' = [opened EXCEPT !.pc = "done",
                                        !.result = RegistryError("InvalidAddress", chain_name)]
             ELSE reg' = [opened EXCEPT !.pc = "query"]
    /\ UNCHANGED <<decoderVars, rt, store>>

\* lines 21-24: the next (chain_name, chain_config) of config.chains(), in the map's
\* own order; the url is parsed, then the address
BeginChain ==
    /\ reg.pc = "loop"
    /\ \E chain_name \in reg.todo :
         LET chain_config == reg.config[chain_name]
             next == [reg EXCEPT !.todo = reg.todo \ {chain_name}, !.cur = chain_name]
         IN  IF ~chain_config.url_ok
             THEN reg' = [next EXCEPT !.pc = "done",
                                      !.result = RegistryError("InvalidRpcUrl", NoChain)]
             ELSE IF ~chain_config.addr_ok
             THEN reg' = [next EXCEPT !.pc = "done",
                                      !.result = RegistryError("InvalidAddress", chain_name)]
             ELSE reg' = [next EXCEPT !.pc = "client"]
    /\ UNCHANGED <<decoderVars, rt, store>>

\* line 25: HyperlaneClient::new(rpc_url, address).await
OpenClient ==
    /\ reg.pc = "client"
    /\ reg' = [reg EXCEPT !.pc = "query", !.clients = Append(reg.clients, reg.cur)]
    /\ UNCHANGED <<decoderVars, rt, store>>

\* A build that leaves out a chain whose query failed and goes on
QueryValidators_skipping_failed ==
    /\ reg.pc = "query"
    /\ LET asked == [reg EXCEPT !.queries = Append(reg.queries, reg.cur)]
       IN  IF ~reg.config[reg.cur].rpc_ok
           THEN reg' = [asked EXCEPT !.pc = "loop"]
           ELSE reg' = [asked EXCEPT !.pc = "loop",
                                     !.contracts = Insert(reg.contracts, reg.cur,
                                                          ValidatorsOf(reg.cur))]
    /\ UNCHANGED <<decoderVars, rt, store>>

\* lines 27-28: rpc_client.get_validators_with_index().await?, then the insert
QueryValidators ==
    /\ reg.pc = "query"
    /\ LET asked == [reg EXCEPT !.queries = Append(reg.queries, reg.cur)]
       IN  IF ~reg.config[reg.cur].rpc_ok
           THEN reg' = [asked EXCEPT !.pc = "done",
                                     !.result = RegistryError("RpcFailure", NoChain)]
           ELSE reg' = [asked EXCEPT !.pc = "loop",
                                     !.contracts = Insert(reg.contracts, reg.cur,
                                                          ValidatorsOf(reg.cur))]
    /\ UNCHANGED <<decoderVars, rt, store>>

\* line 31: the loop is over
FinishRegistry ==
    /\ reg.pc = "loop"
    /\ reg.todo = {}
    /\ reg' = [reg EXCEPT !.pc = "done", !.result = Ok(reg.contracts)]
    /\ UNCHANGED <<decoderVars, rt, store>>

NextRegistry ==
    \/ BeginChain
    \/ OpenClient
    \/ QueryValidators
    \/ FinishRegistry

-----------------------------------------------------------------------------
(* Specifications: one per component, the others idle *)

Init == InitDecoder /\ IdleRoundTrip /\ IdleStore /\ IdleRegistry
Next == NextDecoder
Spec == Init /\ [][Next]_vars

InitRT == IdleDecoder /\ InitRoundTrip /\ IdleStore /\ IdleRegistry
SpecRoundTrip == InitRT /\ [][NextRoundTrip]_vars

InitSt == IdleDecoder /\ IdleRoundTrip /\ InitStore /\ IdleRegistry
SpecStore == InitSt /\ [][NextStore]_vars

InitReg == IdleDecoder /\ IdleRoundTrip /\ IdleStore /\ InitRegistry
SpecRegistry == InitReg /\ [][NextRegistry]_vars

-----------------------------------------------------------------------------
(* Properties of the event decoder (specification Spec) *)

\* The wire layout, by position in the input.  Elements and bytes are counted
\* from 0 as in the layout's description.
Element(i) == input[i + 1]
BodyStart == 5 + 10
BodyReached == Len(input) > BodyStart
FlatLen == 16 * (Len(input) - BodyStart)
FlatByte(k) == Element(BodyStart + (k \div 16))[16 + (k % 16) + 1]
FlatFrom(k) == [j \in 1..(FlatLen - k) |-> FlatByte(k + j - 1)]
Declared == FlatByte(0)
UpdateWidth == 2 + 2 + 16 + 12 + 8 + 2 + 1 + 16 + 16 + 16 + 16
WindowStart(k) == 1 + UpdateWidth * k
Window(k) == [j \in 1..UpdateWidth |-> FlatByte(WindowStart(k) + j - 1)]
EnoughBytes == FlatLen - 1 >= UpdateWidth * Declared
\* The feed_type discriminant of the k-th declared update, when the body holds it
HoldsFeedType(k) == k < Declared /\ WindowStart(k) + 4 <= FlatLen
FeedTypeAt(k) == FlatByte(WindowStart(k) + 2) * 256 + FlatByte(WindowStart(k) + 3)
UnknownAt == {k \in 0..(MaxDeclared + 1) : HoldsFeedType(k) /\ FeedTypeAt(k) \notin KnownFeedTypes}
FirstUnknown == CHOOSE k \in UnknownAt : \A j \in UnknownAt : k <= j
Returned == pc = "done"
IsErr(r, kind) == r.tag = "Err" /\ r.kind = kind

\* C1 (as claimed): once the decoder has returned on an input that reaches the body
\* and declares only known feed types, it has failed with UpdateCountMismatch
\* exactly when fewer than 107 * nb_updated bytes follow the nb_updated byte.
C1_MismatchIffTooFewBytes ==
    (Returned /\ BodyReached /\ UnknownAt = {})
        => (IsErr(result, "UpdateCountMismatch") <=> ~EnoughBytes)

\* C5 (as claimed): on every input of 0 to 15 elements (too short to hold sender,
\* destination domain, recipient, the 10 header elements and the nb_updated byte)
\* the decoder returns a MissingField error as a value.
C5_ShortInputIsMissingField ==
    (Returned /\ Len(input) <= BodyStart) => IsErr(result, "MissingField")

\* C7: the layout is 2+1+2+10+remainder.  A decoded event has its sender from
\* elements 0-1, destination domain from element 2, recipient from elements 3-4,
\* every header field from its element among 5-14, and the body buffer is the low
\* halves of elements 15 onward and nothing else.
C7_FixedLayout ==
    /\ result.tag = "Ok" =>
         /\ result.val.sender = U256_from_words(u128_from_field_bytes(Element(0)),
                                                u128_from_field_bytes(Element(1)))
         /\ result.val.destination_domain = u32_from_field_bytes(Element(2))
         /\ result.val.recipient_address = U256_from_words(u128_from_field_bytes(Element(3)),
                                                           u128_from_field_bytes(Element(4)))
         /\ LET header == result.val.message.header
            IN  /\ header.version = u8_from_field_bytes(Element(5))
                /\ header.nonce = u32_from_field_bytes(Element(6))
                /\ header.origin = u32_from_field_bytes(Element(7))
                /\ header.sender = U256_from_words(u128_from_field_bytes(Element(8)),
                                                   u128_from_field_bytes(Element(9)))
                /\ header.destination = u32_from_field_bytes(Element(10))
                /\ header.recipient = U256_from_words(u128_from_field_bytes(Element(11)),
                                                      u128_from_field_bytes(Element(12)))
         /\ result.val.message.body.nb_updated = Declared
    /\ pc = "count" => data = FlatFrom(0)

\* C7 witness: the header version=1 nonce=4 origin=5 sender=S destination=7
\* recipient=0 decoded with a body of two updates.
C7_Witness ==
    /\ result.tag = "Ok"
    /\ SubSeq(input, 1, BodyStart) = HeadA
    /\ result.val.message.header =
         [version |-> 1, nonce |-> Wide(4, 4), origin |-> Wide(5, 4),
          sender |-> U256_from_words(Wide(161, 16), Wide(162, 16)),
          destination |-> Wide(7, 4),
          recipient |-> U256_from_words(Wide(0, 16), Wide(0, 16))]
    /\ result.val.sender = U256_from_words(Wide(161, 16), Wide(162, 16))
    /\ result.val.message.body.nb_updated = 2
    /\ Element(BodyStart)[1] = 1

\* C8: when one of the declared updates the body holds has a feed_type outside
\* the known set, the decoder returns UnknownFeedType carrying the code of the
\* first such update, and has produced no update for it or after it.
C8_UnknownFeedTypeRejected ==
    (Returned /\ BodyReached /\ UnknownAt # {}) =>
        /\ IsErr(result, "UnknownFeedType")
        /\ result.what = FeedTypeAt(FirstUnknown)
        /\ Len(updates) = FirstUnknown

\* C8 witness: a valid update followed by one of unknown feed type, in a body
\* cut short after it.
C8_Witness ==
    /\ Returned /\ BodyReached
    /\ UnknownAt = {1}
    /\ ~EnoughBytes
    /\ IsErr(result, "UnknownFeedType")
    /\ result.what = 21325
    /\ Len(updates) = 1

-----------------------------------------------------------------------------
(* Properties of to_bytes and the payload decoder (specification SpecRoundTrip) *)

SameButPairId(decoded, u) ==
    /\ decoded.tag = "Ok"
    /\ decoded.val.metadata = u.metadata
    /\ decoded.val.price = u.price
    /\ decoded.val.volume = u.volume

\* C6 (as claimed): decoding the bytes to_bytes returns with the variant-payload
\* decoder yields the metadata, price and volume of the update serialized.
C6_RoundTripOfAllBytes ==
    (rt.pc = "decoded" /\ rt.from = 0) => SameButPairId(rt.decoded, rt.u)

\* C6 (amended): to_bytes writes pair_id.low and pair_id.high first; decoding the
\* bytes that follow those 32 with the variant-payload decoder yields the
\* metadata, price and volume of the update serialized, and reads them all.
C6_RoundTripAfterPairId ==
    (rt.pc = "decoded" /\ rt.from = 2 * U128_BYTES) =>
        /\ SameButPairId(rt.decoded, rt.u)
        /\ rt.decoded.read = Len(rt.bytes) - rt.from

\* C6 witness: an update with a non-zero pair id, distinct price words and
\* non-zero metadata, serialized and decoded back.
C6_Witness ==
    /\ rt.pc = "decoded" /\ rt.from = 2 * U128_BYTES
    /\ SameButPairId(rt.decoded, rt.u)
    /\ rt.u.pair_id # U256_zero
    /\ rt.u.price.high # rt.u.price.low
    /\ rt.u.price.high # Zeros(8) /\ rt.u.price.low # Zeros(8)
    /\ rt.u.metadata.timestamp # Zeros(4)
    /\ rt.u.metadata.decimals > 0 /\ rt.u.metadata.num_sources_aggregated > 255

-----------------------------------------------------------------------------
(* Properties of the checkpoint fetcher (specification SpecStore) *)

FetchedObject == store.objects[store.index]

\* C2 (as claimed): a fetch of an index whose object the bucket does not hold
\* returns Ok(None), not an error.
C2_AbsentIsEmptyResult ==
    (store.fetched /\ FetchedObject = "absent" /\ IsErr(store.got, "ObjectError")
        /\ store.got.what = "NotFound")
        => store.result = Ok(None)

\* C9: a fetch that retrieved an object which is no signed checkpoint returns
\* a deserialize error, and no fetch of an index the bucket does not hold
\* returns that.
C9_CorruptIsDeserializeError ==
    /\ (store.fetched /\ FetchedObject = "corrupt" /\ store.got.tag = "Ok")
          => IsErr(store.result, "Deserialize")
    /\ (store.fetched /\ FetchedObject = "absent")
          => /\ ~IsErr(store.result, "Deserialize")
             /\ store.result # GcsStorageClient_fetch(get_object("corrupt", TRUE))

C9_Witness ==
    /\ store.fetched
    /\ FetchedObject = "corrupt"
    /\ store.got = Ok("corrupt")
    /\ IsErr(store.result, "Deserialize")
    /\ \E i \in Indices : store.objects[i] = "absent"

-----------------------------------------------------------------------------
(* Properties of the registry build (specification SpecRegistry) *)

Configured == DOMAIN reg.config
Resolves(c) == reg.config[c].url_ok /\ reg.config[c].addr_ok /\ reg.config[c].rpc_ok

\* C3: from_config is all-or-nothing.  It returns a registry only when every
\* configured chain resolved, and the registry then holds one entry for each
\* configured chain name, the validators that chain answered; when some
\* configured chain does not resolve it returns an error; nothing is returned
\* before it is done.
C3_AllOrNothing ==
    /\ reg.result.tag = "Ok" =>
         /\ reg.pc = "done"
         /\ \A c \in Configured : Resolves(c)
         /\ DOMAIN reg.result.val = Configured
         /\ \A c \in Configured : reg.result.val[c] = ValidatorsOf(c)
    /\ (reg.pc = "done" /\ \E c \in Configured : ~Resolves(c)) => reg.result.tag = "Err"
    /\ reg.pc # "done" => reg.result = NoResult

\* C3 witness: a registry of every chain name, returned.
C3_Witness ==
    /\ reg.pc = "done"
    /\ reg.result.tag = "Ok"
    /\ Configured = ChainNames
    /\ DOMAIN reg.result.val = ChainNames
    /\ Len(reg.queries) = MaxChains

\* C4 (as claimed): an error from_config returns names the chain that failed.
C4_ErrorNamesChain ==
    reg.result.tag = "Err" => reg.result.chain = reg.cur

\* The chains a log (reg.clients, reg.queries) names, and the log without its last entry
Logged(log) == {log[i] : i \in 1..Len(log)}
Earlier(log) == {log[i] : i \in 1..(Len(log) - 1)}
NoRepeat(log) == \A i, j \in 1..Len(log) : log[i] = log[j] => i = j
Failed == reg.result.tag = "Err"

\* C11: from_config resolves the chains one after another and stops at the first
\* failure.  No chain is queried twice and only configured chains are; a client
\* is opened only for a chain whose url and address are valid, and queried
\* before the next one is opened; every query but the latest has completed
\* successfully (its chain is in the map) before the latest was issued; a chain
\* still to come has neither client nor query; and once a chain has failed,
\* on its url or address before any client was opened for it, or on its query,
\* from_config has returned and opens and queries nothing more.
C11_SequentialShortCircuit ==
    /\ [](/\ NoRepeat(reg.queries) /\ NoRepeat(reg.clients)
          /\ Logged(reg.clients) \subseteq Configured
          /\ \A c \in Logged(reg.clients) : reg.config[c].url_ok /\ reg.config[c].addr_ok
          /\ \/ reg.clients = reg.queries
             \/ reg.pc = "query" /\ reg.clients = Append(reg.queries, reg.cur)
          /\ \A c \in Earlier(reg.queries) : reg.config[c].rpc_ok /\ c \in DOMAIN reg.contracts
          /\ reg.pc = "query" => Logged(reg.queries) \subseteq DOMAIN reg.contracts
          /\ \A c \in reg.todo : c \notin Logged(reg.clients) /\ c \notin Logged(reg.queries)
          /\ Failed =>
               /\ reg.pc = "done"
               /\ reg.result.kind \in {"InvalidRpcUrl", "InvalidAddress"}
                    => reg.cur \notin Logged(reg.clients) /\ reg.cur \notin Logged(reg.queries)
               /\ reg.result.kind = "RpcFailure"
                    => reg.queries # <<>> /\ reg.queries[Len(reg.queries)] = reg.cur)
    /\ [][Failed => (reg'.clients = reg.clients /\ reg'.queries = reg.queries)]_vars
    /\ [][Len(reg'.queries) <= Len(reg.queries) + 1
            /\ Len(reg'.clients) <= Len(reg.clients) + 1]_vars

\* C11 witness: one chain queried successfully, the next one failed on its
\* address with no client opened for it, and a third, valid, chain left alone.
C11_Witness ==
    /\ Failed
    /\ reg.result.kind = "InvalidAddress"
    /\ reg.clients = reg.queries /\ Len(reg.queries) = 1
    /\ reg.queries[1] \in DOMAIN reg.contracts
    /\ reg.cur \notin Logged(reg.clients)
    /\ \E c \in reg.todo : Resolves(c)

=============================================================================
